---- MODULE Spec2Model ----
(***************************************************************************)
(* breeze-cli: the navigation + incremental fuzzy-filter state machine.    *)
(*                                                                         *)
(* The model follows src/src/main.rs (App, PathList, Output),              *)
(* src/src/core/explorer.rs (Explorer) and src/src/fs/listing.rs           *)
(* (list_directory).  Strings are sequences of one-character strings, a    *)
(* file name is such a sequence, a path is a sequence of file names.       *)
(* Option<T> is a sequence of length 0 (None) or 1 (Some).                 *)
(***************************************************************************)
EXTENDS Integers, Sequences, FiniteSets, TLC

VARIABLES
    fs,             \* the file system: node kind of every path of Universe
    unreadable,     \* directories whose read_dir fails (permissions)
    fs_changes,     \* number of file-system changes made by other processes
    current_dir,    \* App.explorer.current_dir
    items,          \* App.path_list.items
    selected,       \* App.path_list.state.selected()
    filter_string,  \* App.filter_string
    pattern,        \* App.pattern : Option<Pattern>
    should_exit,    \* App.should_exit
    output,         \* App.output
    unhandled,      \* the local `unhandled` of App::run
    pc,             \* position of App::run: "draw", "read", and after the loop
                    \* "teardown", "disable_raw", "print_unhandled"; then of
                    \* main: "print_output", "done"; "aborted" when main
                    \* returned before App::run
    key,            \* the loop's local `key`: the key event of this iteration
    args_directory, \* Args.directory, the directory argument of the session
    alternate_screen, \* the terminal shows the alternate screen
    raw_mode,       \* the terminal is in raw mode
    stdout          \* what println! has written, in order

vars == << fs, unreadable, fs_changes, current_dir, items, selected,
           filter_string, pattern, should_exit, output, unhandled, pc, key,
           args_directory, alternate_screen, raw_mode, stdout >>

(***************************************************************************)
(* Bounds of the model.                                                    *)
(***************************************************************************)
MaxQuery == 3
MaxFsChanges == 1
MaxErrors == 1

(***************************************************************************)
(* Option values.                                                          *)
(***************************************************************************)
None == << >>
Some(x) == << x >>
IsSome(o) == Len(o) = 1
Unwrap(o) == o[1]

\* usize::MAX, the index ListState::select_last and select_previous store.
\* TLC integers are 32 bits wide, so the model's usize is 31 bits wide.
UsizeMax == 2147483647

saturating_add(i) == IF i = UsizeMax THEN UsizeMax ELSE i + 1
saturating_sub(i) == IF i = 0 THEN 0 ELSE i - 1

(***************************************************************************)
(* Characters, byte order and case folding.                                *)
(***************************************************************************)
Byte(c) ==
    CASE c = " " -> 32
      [] c = "!" -> 33
      [] c = "/" -> 47
      [] c = "A" -> 65
      [] c = "B" -> 66
      [] c = "a" -> 97
      [] c = "b" -> 98
      [] c = "l" -> 108

Lower(c) ==
    CASE c = "A" -> "a"
      [] c = "B" -> "b"
      [] c = "Q" -> "q"
      [] OTHER -> c

LowerStr(s) == [i \in 1..Len(s) |-> Lower(s[i])]

\* mutant of NameLess: the names are compared without regard to case
RECURSIVE NameLessIgnoreCase(_, _)
NameLessIgnoreCase(x, y) ==
    IF Len(y) = 0 THEN FALSE
    ELSE IF Len(x) = 0 THEN TRUE
    ELSE IF Byte(Lower(x[1])) # Byte(Lower(y[1]))
         THEN Byte(Lower(x[1])) < Byte(Lower(y[1]))
    ELSE NameLessIgnoreCase(Tail(x), Tail(y))

\* OsString::cmp: lexicographic comparison of the bytes
RECURSIVE NameLess(_, _)
NameLess(x, y) ==
    IF Len(y) = 0 THEN FALSE
    ELSE IF Len(x) = 0 THEN TRUE
    ELSE IF Byte(x[1]) # Byte(y[1]) THEN Byte(x[1]) < Byte(y[1])
    ELSE NameLess(Tail(x), Tail(y))

(***************************************************************************)
(* The file system.                                                        *)
(***************************************************************************)
Root == << >>
NameBa == << "B", "a" >>
NameAb == << "a", "b" >>
NameB == << "b" >>
NameA == << "a" >>
NameAba == << "a", "b", "a" >>
NameL == << "l" >>

PathBa == << NameBa >>
PathAb == << NameAb >>
PathB == << NameB >>
PathL == << NameL >>
PathBaA == << NameBa, NameA >>
PathBaAba == << NameBa, NameAba >>

Universe == { PathBa, PathAb, PathB, PathL, PathBaA, PathBaAba }
Volatile == { PathB, PathBa }
\* the directories whose permissions other processes change
ChmodDirs == { Root }
LinkTarget(p) == PathBa

\* the tree at start-up: /Ba (a directory holding a and aba), /ab and /l (a
\* symbolic link to /Ba); the file /b may be created later
InitialFs ==
    [p \in Universe |->
        CASE p = PathBa -> "dir"
          [] p = PathL -> "link"
          [] p = PathB -> "absent"
          [] OTHER -> "file"]

Exists(p) == p = Root \/ (p \in Universe /\ fs[p] # "absent")
NodeKind(p) == IF p = Root THEN "dir" ELSE fs[p]

IsPrefix(d, p) == Len(d) <= Len(p) /\ SubSeq(p, 1, Len(d)) = d
ParentOf(p) == SubSeq(p, 1, Len(p) - 1)

\* std::fs::canonicalize: the absolute, symlink-free form of an existing path
RECURSIVE Resolve(_, _)
Resolve(cur, rest) ==
    IF Len(rest) = 0 THEN Some(cur)
    ELSE LET next == Append(cur, Head(rest)) IN
         IF ~Exists(next) THEN None
         ELSE IF NodeKind(next) = "link"
              THEN IF Exists(LinkTarget(next))
                   THEN Resolve(LinkTarget(next), Tail(rest))
                   ELSE None
         ELSE IF NodeKind(next) = "file" /\ Len(rest) > 1 THEN None
         ELSE Resolve(next, Tail(rest))

canonicalize(p) == Resolve(Root, p)

\* Path::is_dir: follows symbolic links, false when the path cannot be read
is_dir(p) ==
    LET c == canonicalize(p) IN
    IsSome(c) /\ NodeKind(Unwrap(c)) = "dir"

\* ObjectType::from(PathBuf)
ObjectType(p) == IF is_dir(p) THEN "Directory" ELSE "File"

Children(d) == { p \in Universe : Len(p) = Len(d) + 1 /\ IsPrefix(d, p) /\ Exists(p) }

RECURSIVE SortPaths(_)
SortPaths(S) ==
    IF S = {} THEN << >>
    ELSE LET m == CHOOSE x \in S :
                    \A y \in S \ {x} : NameLess(x[Len(x)], y[Len(y)])
         IN << m >> \o SortPaths(S \ {m})

\* fs::read_dir succeeds on a readable directory
CanRead(d) == Exists(d) /\ NodeKind(d) = "dir" /\ d \notin unreadable

\* list_directory: Ok(entries sorted by file name) or Err
list_directory(d) ==
    IF CanRead(d) THEN Some(SortPaths(Children(d))) ELSE None

\* Explorer::ls
ls == list_directory(current_dir)

\* Explorer::cwd and Path::to_string_lossy: "/" and the names joined by "/"
RECURSIVE JoinNames(_)
JoinNames(p) ==
    IF Len(p) = 0 THEN << >>
    ELSE IF Len(p) = 1 THEN p[1]
    ELSE p[1] \o << "/" >> \o JoinNames(Tail(p))

PathStr(p) == << "/" >> \o JoinNames(p)
cwd == PathStr(current_dir)

\* Path::new(value, kind): match_indices is empty
PathNew(value, kind) == [value |-> value, kind |-> kind, match_indices |-> << >>]

\* Path::with_match_indices
PathWithMatchIndices(value, kind, indices) ==
    [value |-> value, kind |-> kind, match_indices |-> indices]

\* impl FromIterator<DirEntry> for PathList: the items (the state is ListState::default())
PathListFromIter(entries) ==
    [i \in 1..Len(entries) |->
        PathNew(entries[i][Len(entries[i])], ObjectType(entries[i]))]

(***************************************************************************)
(* The matcher (nucleo_matcher), as App uses it: Pattern::parse with       *)
(* CaseMatching::Ignore and Pattern::indices.  The query is split at       *)
(* white space into atoms; an atom starting with "!" is an inverse         *)
(* substring atom, an atom of letters is a fuzzy atom (the other atom      *)
(* kinds need characters outside Alphabet); atoms whose needle is empty    *)
(* are dropped.                                                            *)
(***************************************************************************)
RECURSIVE pattern_atoms(_, _)
pattern_atoms(q, cur) ==
    IF Len(q) = 0 THEN (IF Len(cur) = 0 THEN << >> ELSE << cur >>)
    ELSE IF Head(q) = " "
         THEN (IF Len(cur) = 0 THEN << >> ELSE << cur >>) \o pattern_atoms(Tail(q), << >>)
         ELSE pattern_atoms(Tail(q), Append(cur, Head(q)))

AtomParse(raw) ==
    IF Head(raw) = "!"
    THEN [needle |-> LowerStr(Tail(raw)), negative |-> TRUE]
    ELSE [needle |-> LowerStr(raw), negative |-> FALSE]

\* Pattern::parse(&filter_string, CaseMatching::Ignore, Normalization::Smart)
PatternParse(q) ==
    LET raw == pattern_atoms(q, << >>)
        parsed == [i \in 1..Len(raw) |-> AtomParse(raw[i])]
    IN SelectSeq(parsed, LAMBDA a : Len(a.needle) > 0)

\* the ways to find needle as a subsequence of haystack, from position `from`
RECURSIVE Embeddings(_, _, _)
Embeddings(needle, haystack, from) ==
    IF Len(needle) = 0 THEN { << >> }
    ELSE UNION { { << i >> \o e : e \in Embeddings(Tail(needle), haystack, i + 1) } :
                 i \in { j \in from..Len(haystack) : Lower(haystack[j]) = Head(needle) } }

\* the score of one alignment: 16 a matched character, a doubled boundary
\* bonus when the first one starts the name, 4 for a consecutive match,
\* 3 to open a gap and 1 for each further character of it
RECURSIVE EmbeddingScore(_, _)
EmbeddingScore(e, i) ==
    IF i > Len(e) THEN 0
    ELSE 16
         + (IF i = 1 THEN (IF e[1] = 1 THEN 16 ELSE 0)
            ELSE IF e[i] = e[i - 1] + 1 THEN 4
            ELSE 0 - (3 + (e[i] - e[i - 1] - 2)))
         + EmbeddingScore(e, i + 1)

RECURSIVE LexLeq(_, _)
LexLeq(e, f) ==
    IF Len(e) = 0 THEN TRUE
    ELSE IF Len(f) = 0 THEN FALSE
    ELSE IF Head(e) # Head(f) THEN Head(e) < Head(f)
    ELSE LexLeq(Tail(e), Tail(f))

\* Atom::indices for a fuzzy atom: the best alignment's score and positions
FuzzyIndices(needle, haystack) ==
    LET E == Embeddings(needle, haystack, 1) IN
    IF E = {} THEN None
    ELSE LET best == CHOOSE e \in E : \A f \in E :
                        \/ EmbeddingScore(e, 1) > EmbeddingScore(f, 1)
                        \/ /\ EmbeddingScore(e, 1) = EmbeddingScore(f, 1)
                           /\ LexLeq(e, f)
         IN Some([score |-> EmbeddingScore(best, 1),
                  indices |-> [i \in 1..Len(best) |-> best[i] - 1]])

ContainsAt(needle, haystack, k) ==
    /\ k + Len(needle) - 1 <= Len(haystack)
    /\ \A i \in 1..Len(needle) : Lower(haystack[k + i - 1]) = needle[i]

\* Atom::indices for an inverse atom: a match, of score 0, when the needle is
\* no substring of the name
InverseIndices(needle, haystack) ==
    IF \E k \in 1..Len(haystack) : ContainsAt(needle, haystack, k)
    THEN None
    ELSE Some([score |-> 0, indices |-> << >>])

AtomIndices(atom, haystack) ==
    IF atom.negative THEN InverseIndices(atom.needle, haystack)
    ELSE FuzzyIndices(atom.needle, haystack)

\* Pattern::indices: Some(0) without atoms, else the atoms' scores added up and
\* their indices appended, None as soon as one atom does not match
RECURSIVE PatternIndices(_, _)
PatternIndices(atoms, haystack) ==
    IF Len(atoms) = 0 THEN Some([score |-> 0, indices |-> << >>])
    ELSE LET a == AtomIndices(Head(atoms), haystack)
             r == PatternIndices(Tail(atoms), haystack)
         IN IF ~IsSome(a) \/ ~IsSome(r) THEN None
            ELSE Some([score |-> Unwrap(a).score + Unwrap(r).score,
                       indices |-> Unwrap(a).indices \o Unwrap(r).indices])

\* new_items.sort_by(|a, b| b.3.cmp(&a.3)): a stable sort, best score first
RECURSIVE SortByScore(_)
SortByScore(s) ==
    IF Len(s) = 0 THEN << >>
    ELSE LET mx == CHOOSE m \in { s[i].score : i \in 1..Len(s) } :
                      \A i \in 1..Len(s) : s[i].score <= m
         IN SelectSeq(s, LAMBDA x : x.score = mx)
            \o SortByScore(SelectSeq(s, LAMBDA x : x.score # mx))

\* the loop over items_with_types: the matching candidates, scored
MatchItems(atoms, candidates) ==
    LET scored == [i \in 1..Len(candidates) |->
                      [value |-> candidates[i].value,
                       kind |-> candidates[i].kind,
                       m |-> PatternIndices(atoms, candidates[i].value)]]
        kept == SelectSeq(scored, LAMBDA x : IsSome(x.m))
    IN [i \in 1..Len(kept) |->
           [value |-> kept[i].value, kind |-> kept[i].kind,
            indices |-> Unwrap(kept[i].m).indices,
            score |-> Unwrap(kept[i].m).score]]

\* match, sort by score and build the new items with their match indices
FilterItems(atoms, candidates) ==
    LET sorted == SortByScore(MatchItems(atoms, candidates)) IN
    [i \in 1..Len(sorted) |->
        PathWithMatchIndices(sorted[i].value, sorted[i].kind, sorted[i].indices)]

(***************************************************************************)
(* Initial state: main() builds the Explorer from the canonical start      *)
(* directory, lists it, and builds App with no selection, no pattern and   *)
(* Output::new(cwd).                                                       *)
(***************************************************************************)
Alphabet == { "a", "b", " " }

\* Output::new
OutputNew(c) == [cwd |-> c, command |-> "no-op", items |-> << >>]

Nothing == << "n", "o", "t", "h", "i", "n", "g" >>

\* mutant of ExplorerNew: the path is resolved without the check that it exists
ExplorerNewUnchecked(d) ==
    IF IsSome(canonicalize(d))
    THEN [ok |-> TRUE, current_dir |-> canonicalize(d), err |-> "", path |-> << >>]
    ELSE [ok |-> FALSE, current_dir |-> None, err |-> "Io", path |-> << >>]

\* Path::exists: follows symbolic links, false for a path that does not resolve
path_exists(p) == IsSome(canonicalize(p))

\* Explorer::new: Err(InvalidDirectory(path)) for a path that does not exist,
\* else an Explorer owning the canonical form of the path
ExplorerNew(d) ==
    IF ~path_exists(d)
    THEN [ok |-> FALSE, current_dir |-> None, err |-> "InvalidDirectory", path |-> PathStr(d)]
    ELSE [ok |-> TRUE, current_dir |-> canonicalize(d), err |-> "", path |-> << >>]

\* main: Explorer::new(args.directory.canonicalize()?)?
main_explorer(d) ==
    IF IsSome(canonicalize(d))
    THEN ExplorerNew(Unwrap(canonicalize(d)))
    ELSE [ok |-> FALSE, current_dir |-> None, err |-> "Io", path |-> << >>]

\* main: explorer.ls()?
main_paths(d) ==
    IF main_explorer(d).ok
    THEN list_directory(Unwrap(main_explorer(d).current_dir))
    ELSE None

\* the directory arguments of the sessions: "/", the regular file /ab, and
\* /b, which does not exist
StartDirs == { Root, PathAb, PathB }

\* main up to the loop of App::run: App is built when canonicalize,
\* Explorer::new and ls succeed, and run has enabled the raw mode and entered
\* the alternate screen; else main returns the error and no App exists (the
\* variables of App hold the values of an empty session; current_dir is the
\* path of the Explorer when one was built)
Init ==
    /\ fs = InitialFs
    /\ unreadable = {}
    /\ fs_changes = 0
    /\ args_directory \in StartDirs
    /\ IF IsSome(main_paths(args_directory))
       THEN /\ current_dir = Unwrap(main_explorer(args_directory).current_dir)
            /\ items = PathListFromIter(Unwrap(main_paths(args_directory)))
            /\ output = OutputNew(PathStr(Unwrap(main_explorer(args_directory).current_dir)))
            /\ pc = "draw"
            /\ alternate_screen = TRUE
            /\ raw_mode = TRUE
       ELSE /\ current_dir = (IF main_explorer(args_directory).ok
                              THEN Unwrap(main_explorer(args_directory).current_dir)
                              ELSE Root)
            /\ items = << >>
            /\ output = OutputNew(PathStr(Root))
            /\ pc = "aborted"
            /\ alternate_screen = FALSE
            /\ raw_mode = FALSE
    /\ stdout = << >>
    /\ selected = None
    /\ filter_string = << >>
    /\ pattern = None
    /\ should_exit = FALSE
    /\ unhandled = << >>
    /\ key = "none"

(***************************************************************************)
(* Other processes change the file system between two steps of the loop.   *)
(***************************************************************************)
\* a file is created
FsCreate(p) ==
    /\ UNCHANGED << args_directory, alternate_screen, raw_mode, stdout >>
    /\ fs_changes < MaxFsChanges
    /\ pc = "read"
    /\ p \in Volatile /\ fs[p] = "absent"
    /\ fs' = [fs EXCEPT ![p] = "file"]
    /\ fs_changes' = fs_changes + 1
    /\ UNCHANGED << unreadable, current_dir, items, selected, filter_string, pattern,
                    should_exit, output, unhandled, pc, key >>

\* a file, or a directory with all it holds, is removed
FsRemove(p) ==
    /\ UNCHANGED << args_directory, alternate_screen, raw_mode, stdout >>
    /\ fs_changes < MaxFsChanges
    /\ pc = "read"
    /\ p \in Volatile /\ fs[p] # "absent"
    /\ fs' = [q \in Universe |-> IF IsPrefix(p, q) THEN "absent" ELSE fs[q]]
    /\ fs_changes' = fs_changes + 1
    /\ UNCHANGED << unreadable, current_dir, items, selected, filter_string, pattern,
                    should_exit, output, unhandled, pc, key >>

\* a directory is replaced by a regular file of the same name
FsReplace(p) ==
    /\ UNCHANGED << args_directory, alternate_screen, raw_mode, stdout >>
    /\ fs_changes < MaxFsChanges
    /\ pc = "read"
    /\ p \in Volatile /\ fs[p] = "dir"
    /\ fs' = [q \in Universe |-> IF q = p THEN "file"
                                 ELSE IF IsPrefix(p, q) THEN "absent" ELSE fs[q]]
    /\ fs_changes' = fs_changes + 1
    /\ UNCHANGED << unreadable, current_dir, items, selected, filter_string, pattern,
                    should_exit, output, unhandled, pc, key >>

\* a directory's read permission is taken away, or given back
FsChmod(d) ==
    /\ UNCHANGED << args_directory, alternate_screen, raw_mode, stdout >>
    /\ fs_changes < MaxFsChanges
    /\ pc = "read"
    /\ d \in ChmodDirs /\ Exists(d) /\ NodeKind(d) = "dir"
    /\ unreadable' = IF d \in unreadable THEN unreadable \ {d} ELSE unreadable \cup {d}
    /\ fs_changes' = fs_changes + 1
    /\ UNCHANGED << fs, current_dir, items, selected, filter_string, pattern,
                    should_exit, output, unhandled, pc, key >>

(***************************************************************************)
(* One iteration of App::run: draw, then read one event and handle it.     *)
(***************************************************************************)

\* mutant of RenderSelected: the render leaves the cursor as it is
RenderSelectedNoClamp == selected

\* mutant of RenderSelected: the cursor of an empty list is dropped, a cursor
\* past the end is left where it is
RenderSelectedEmptyOnly == IF Len(items) = 0 THEN None ELSE selected

\* the List widget's render on ListState (the list area of a terminal of
\* ordinary size is not empty): None for an empty list, the last index for an
\* index past the end
RenderSelected ==
    IF Len(items) = 0 THEN None
    ELSE IF IsSome(selected) /\ Unwrap(selected) >= Len(items)
         THEN Some(Len(items) - 1)
    ELSE selected

\* terminal.draw(|frame| frame.render_widget(&mut *self, frame.area()))
Render ==
    /\ UNCHANGED << args_directory, alternate_screen, raw_mode, stdout >>
    /\ pc = "draw"
    /\ selected' = RenderSelected
    /\ key' = "none"
    /\ pc' = "read"
    /\ UNCHANGED << fs, unreadable, fs_changes, current_dir, items, filter_string,
                    pattern, should_exit, output, unhandled >>

\* mutant of LoopNext: the flag is not looked at, the loop goes on
LoopNextKeepsOn(exit) == "draw"

\* `while !self.should_exit` after a handled event
LoopNext(exit) == IF exit THEN "teardown" ELSE "draw"

\* mutant of SelectedName: the entry never names the selected item
SelectedNameMissing == Nothing

\* the name the error entry carries: the selected item's, or "nothing"
SelectedName == IF IsSome(selected) THEN items[Unwrap(selected) + 1].value ELSE Nothing

\* indexing path_list.items[i] panics when i is out of bounds
IndexPanics(sel) == IsSome(sel) /\ Unwrap(sel) >= Len(items)

\* event::read() returned an event that is no key event
OtherEvent ==
    /\ UNCHANGED << args_directory, alternate_screen, raw_mode, stdout >>
    /\ pc = "read"
    /\ pc' = "draw"
    /\ UNCHANGED << fs, unreadable, fs_changes, current_dir, items, selected,
                    filter_string, pattern, should_exit, output, unhandled, key >>

\* mutant of KeyIgnored: the kind is not looked at, the release of Esc clears
\* the filter as its press does
KeyIgnoredHandlesRelease ==
    /\ UNCHANGED << args_directory, alternate_screen, raw_mode, stdout >>
    /\ pc = "read"
    /\ key' = "Ignored"
    /\ filter_string' = << >>
    /\ pattern' = None
    /\ items' = (IF IsSome(ls) THEN PathListFromIter(Unwrap(ls)) ELSE items)
    /\ selected' = Some(0)
    /\ pc' = "draw"
    /\ UNCHANGED << fs, unreadable, fs_changes, current_dir, should_exit, output,
                    unhandled >>

\* handle_key: a key event that is no press, or a key code without an arm
KeyIgnored ==
    /\ UNCHANGED << args_directory, alternate_screen, raw_mode, stdout >>
    /\ pc = "read"
    /\ key' = "Ignored"
    /\ pc' = "draw"
    /\ UNCHANGED << fs, unreadable, fs_changes, current_dir, items, selected,
                    filter_string, pattern, should_exit, output, unhandled >>

\* mutant of CharArm: every character goes to the filter
CharArmFilterOnly(c) == "Filter"

\* handle_key's match on KeyCode::Char: the arm Char('Q') stands before the
\* arm Char(c), so 'Q' never reaches filter_paths
CharArm(c) == IF c = "Q" THEN "Quit" ELSE "Filter"

\* the characters a key event may carry
KeyChars == Alphabet \cup { "Q" }

\* KeyCode::Char('Q') => self.should_exit = true
KeyQuit ==
    /\ UNCHANGED << args_directory, alternate_screen, raw_mode, stdout >>
    /\ pc = "read"
    /\ CharArm("Q") = "Quit"
    /\ key' = "Q"
    /\ should_exit' = TRUE
    /\ pc' = LoopNext(TRUE)
    /\ UNCHANGED << fs, unreadable, fs_changes, current_dir, items, selected,
                    filter_string, pattern, output, unhandled >>


\* mutant of select_next: the cursor wraps around to the first entry
select_next_circular(sel) ==
    IF IsSome(sel)
    THEN (IF Unwrap(sel) + 1 >= Len(items) THEN Some(0) ELSE Some(Unwrap(sel) + 1))
    ELSE Some(0)

\* mutant of select_previous: no selection is taken for the first entry
select_previous_from_first(sel) ==
    IF IsSome(sel) THEN Some(saturating_sub(Unwrap(sel))) ELSE Some(0)

\* ListState::select_next / select_previous / select_first / select_last
select_next(sel) == IF IsSome(sel) THEN Some(saturating_add(Unwrap(sel))) ELSE Some(0)
select_previous(sel) == IF IsSome(sel) THEN Some(saturating_sub(Unwrap(sel))) ELSE Some(UsizeMax)
select_first(sel) == Some(0)
select_last(sel) == Some(UsizeMax)

\* mutant of SelectKey: the key also reads the directory again
SelectKeyRelists(code, sel) ==
    /\ UNCHANGED << args_directory, alternate_screen, raw_mode, stdout >>
    /\ pc = "read"
    /\ key' = code
    /\ selected' = sel
    /\ items' = (IF IsSome(ls) THEN PathListFromIter(Unwrap(ls)) ELSE items)
    /\ pc' = "draw"
    /\ UNCHANGED << fs, unreadable, fs_changes, current_dir, filter_string,
                    pattern, should_exit, output, unhandled >>

\* a key that moves the cursor only
SelectKey(code, sel) ==
    /\ UNCHANGED << args_directory, alternate_screen, raw_mode, stdout >>
    /\ pc = "read"
    /\ key' = code
    /\ selected' = sel
    /\ pc' = "draw"
    /\ UNCHANGED << fs, unreadable, fs_changes, current_dir, items, filter_string,
                    pattern, should_exit, output, unhandled >>

\* KeyCode::Down => self.select_next()
KeyDown == SelectKey("Down", select_next(selected))
\* KeyCode::Up => self.select_previous()
KeyUp == SelectKey("Up", select_previous(selected))
\* KeyCode::Home => self.select_first()
KeyHome == SelectKey("Home", select_first(selected))
\* KeyCode::End => self.select_last()
KeyEnd == SelectKey("End", select_last(selected))


\* mutant of Relisted: the directory is not read again
RelistedKeepsList(dir, kept) == kept

\* clear_filter's and remove_last_char_from_filter's re-listing:
\* `if let Ok(new_paths) = self.explorer.ls()`, else the list is kept
Relisted(dir, kept) ==
    LET r == list_directory(dir) IN
    IF IsSome(r) THEN PathListFromIter(Unwrap(r)) ELSE kept

\* mutant of clear_filter: the query and its pattern are left as they are
clear_filter_keeps_query(dir, kept) ==
    /\ UNCHANGED << filter_string, pattern >>
    /\ items' = Relisted(dir, kept)
    /\ selected' = select_first(selected)

\* mutant of clear_filter: the list on display is kept, not read again
clear_filter_no_relist(dir, kept) ==
    /\ filter_string' = << >>
    /\ pattern' = None
    /\ items' = kept
    /\ selected' = select_first(selected)

\* clear_filter, in directory dir with the items `kept` shown
clear_filter(dir, kept) ==
    /\ filter_string' = << >>
    /\ pattern' = None
    /\ items' = Relisted(dir, kept)
    /\ selected' = select_first(selected)

\* KeyCode::Esc => self.clear_filter()
KeyEsc ==
    /\ UNCHANGED << args_directory, alternate_screen, raw_mode, stdout >>
    /\ pc = "read"
    /\ key' = "Esc"
    /\ clear_filter(current_dir, items)
    /\ pc' = "draw"
    /\ UNCHANGED << fs, unreadable, fs_changes, current_dir, should_exit, output,
                    unhandled >>

\* mutant of cd_current_dir: the path is taken as given, symbolic links kept
cd_current_dir_as_given(directory) ==
    LET c == canonicalize(directory) IN
    IF IsSome(c) THEN directory ELSE current_dir

\* Explorer::cd: the directory owned after the call, and what the call returns
cd_current_dir(directory) ==
    LET c == canonicalize(directory) IN
    IF IsSome(c) THEN Unwrap(c) ELSE current_dir

cd_result(directory) ==
    LET c == canonicalize(directory) IN
    IF IsSome(c) THEN list_directory(Unwrap(c)) ELSE None

\* App::run's `err =>` arm: one entry with the key and the selected name
LogError(code) ==
    unhandled' = Append(unhandled, [key |-> code, selected |-> SelectedName])

\* a Rust panic (index out of bounds) ends the process where it stands
Panic ==
    /\ pc' = "panicked"
    /\ UNCHANGED << items, selected, filter_string, pattern, should_exit, output,
                    unhandled >>

\* the directory enter_directory changes to: the selected item's, if it is one
EnterTarget == Append(current_dir, items[Unwrap(selected) + 1].value)

EntersDirectory ==
    /\ IsSome(selected)
    /\ items[Unwrap(selected) + 1].kind = "Directory"

\* KeyCode::Right => { self.enter_directory()?; self.clear_filter(); }
KeyRight ==
    /\ UNCHANGED << args_directory, alternate_screen, raw_mode, stdout >>
    /\ pc = "read"
    /\ key' = "Right"
    /\ UNCHANGED << fs, unreadable, fs_changes >>
    /\ IF IndexPanics(selected)
       THEN Panic /\ UNCHANGED current_dir
       ELSE IF EntersDirectory
       THEN /\ current_dir' = cd_current_dir(EnterTarget)
            /\ IF IsSome(cd_result(EnterTarget))
               THEN /\ clear_filter(cd_current_dir(EnterTarget),
                                    PathListFromIter(Unwrap(cd_result(EnterTarget))))
                    /\ pc' = "draw"
                    /\ UNCHANGED << should_exit, output, unhandled >>
               ELSE /\ Len(unhandled) < MaxErrors
                    /\ LogError("Right")
                    /\ pc' = "draw"
                    /\ UNCHANGED << items, selected, filter_string, pattern,
                                    should_exit, output >>
       ELSE /\ clear_filter(current_dir, items)
            /\ pc' = "draw"
            /\ UNCHANGED << current_dir, should_exit, output, unhandled >>

\* mutant of ParentTarget: the directory itself is taken for its parent
ParentTargetItself == current_dir

\* change_to_parent's target: the parent, or the directory itself at the root
ParentTarget == IF current_dir = Root THEN current_dir ELSE ParentOf(current_dir)

\* KeyCode::Left => { self.change_to_parent()?; self.clear_filter(); }
KeyLeft ==
    /\ UNCHANGED << args_directory, alternate_screen, raw_mode, stdout >>
    /\ pc = "read"
    /\ key' = "Left"
    /\ UNCHANGED << fs, unreadable, fs_changes >>
    /\ current_dir' = cd_current_dir(ParentTarget)
    /\ IF IsSome(cd_result(ParentTarget))
       THEN /\ clear_filter(cd_current_dir(ParentTarget),
                            PathListFromIter(Unwrap(cd_result(ParentTarget))))
            /\ pc' = "draw"
            /\ UNCHANGED << should_exit, output, unhandled >>
       ELSE IF IndexPanics(selected)
       THEN Panic
       ELSE /\ Len(unhandled) < MaxErrors
            /\ LogError("Left")
            /\ pc' = "draw"
            /\ UNCHANGED << items, selected, filter_string, pattern,
                            should_exit, output >>

\* mutant of update_command: the item is built on the directory of start-up
update_command_startup_cwd(command, quit) ==
    IF IsSome(selected)
    THEN /\ output' = [output EXCEPT
                          !.command = command,
                          !.items = << output.cwd \o << "/" >> \o items[Unwrap(selected) + 1].value >>]
         /\ should_exit' = (quit \/ should_exit)
    ELSE UNCHANGED << output, should_exit >>

\* mutant of update_command: the selection is not looked at
update_command_unconditional(command, quit) ==
    /\ output' = [output EXCEPT
                     !.command = command,
                     !.items = IF IsSome(selected)
                               THEN << cwd \o << "/" >> \o items[Unwrap(selected) + 1].value >>
                               ELSE << >>]
    /\ should_exit' = (quit \/ should_exit)

\* mutant of update_command: the session is not ended
update_command_no_quit(command, quit) ==
    IF IsSome(selected)
    THEN /\ output' = [output EXCEPT
                          !.command = command,
                          !.items = << cwd \o << "/" >> \o items[Unwrap(selected) + 1].value >>]
         /\ UNCHANGED should_exit
    ELSE UNCHANGED << output, should_exit >>

\* update_command(command, quit)
update_command(command, quit) ==
    IF IsSome(selected)
    THEN /\ output' = [output EXCEPT
                          !.command = command,
                          !.items = << cwd \o << "/" >> \o items[Unwrap(selected) + 1].value >>]
         /\ should_exit' = (quit \/ should_exit)
    ELSE UNCHANGED << output, should_exit >>

\* KeyCode::Enter => self.update_command("do-thing".to_string(), true)
KeyEnter ==
    /\ UNCHANGED << args_directory, alternate_screen, raw_mode, stdout >>
    /\ pc = "read"
    /\ key' = "Enter"
    /\ UNCHANGED << fs, unreadable, fs_changes, current_dir >>
    /\ IF IndexPanics(selected)
       THEN Panic
       ELSE /\ update_command("do-thing", TRUE)
            /\ pc' = LoopNext(should_exit')
            /\ UNCHANGED << items, selected, filter_string, pattern, unhandled >>


\* mutant of FilterCandidates: the directory is read again at every character
FilterCandidatesRelisted ==
    IF IsSome(ls) THEN PathListFromIter(Unwrap(ls)) ELSE items

\* filter_paths: "Get all current items with their types"
FilterCandidates == items

\* KeyCode::Char(c) => self.filter_paths(c)
filter_paths(c) ==
    /\ filter_string' = Append(filter_string, c)
    /\ items' = FilterItems(PatternParse(Append(filter_string, c)), FilterCandidates)
    /\ pattern' = Some(PatternParse(Append(filter_string, c)))
    /\ selected' = select_first(selected)

KeyChar(c) ==
    /\ UNCHANGED << args_directory, alternate_screen, raw_mode, stdout >>
    /\ pc = "read"
    /\ CharArm(c) = "Filter"
    /\ key' = "Char"
    /\ Len(filter_string) < MaxQuery
    /\ filter_paths(c)
    /\ pc' = "draw"
    /\ UNCHANGED << fs, unreadable, fs_changes, current_dir, should_exit, output,
                    unhandled >>


\* mutant of Pop: the whole string is dropped
PopClears(s) == << >>

\* String::pop
Pop(s) == IF Len(s) = 0 THEN s ELSE SubSeq(s, 1, Len(s) - 1)


\* mutant of RefilteredItems: the shortened query filters the list on display
RefilteredFromDisplayed(q) == FilterItems(PatternParse(q), items)

\* remove_last_char_from_filter: the list for a query that stays non-empty
\* ("Re-fetch full directory and filter with match indices")
RefilteredItems(q) ==
    IF IsSome(ls)
    THEN FilterItems(PatternParse(q), PathListFromIter(Unwrap(ls)))
    ELSE items

\* mutant of remove_last_char_from_filter: a pattern is stored for the
\* emptied query too
remove_last_char_keeps_pattern ==
    /\ filter_string' = Pop(filter_string)
    /\ items' = (IF Len(Pop(filter_string)) = 0
                 THEN Relisted(current_dir, items)
                 ELSE RefilteredItems(Pop(filter_string)))
    /\ pattern' = Some(PatternParse(Pop(filter_string)))
    /\ selected' = select_first(selected)

\* KeyCode::Backspace => self.remove_last_char_from_filter()
remove_last_char_from_filter ==
    /\ filter_string' = Pop(filter_string)
    /\ IF Len(Pop(filter_string)) = 0
       THEN /\ items' = Relisted(current_dir, items)
            /\ pattern' = None
       ELSE /\ items' = RefilteredItems(Pop(filter_string))
            /\ pattern' = Some(PatternParse(Pop(filter_string)))
    /\ selected' = select_first(selected)

KeyBackspace ==
    /\ UNCHANGED << args_directory, alternate_screen, raw_mode, stdout >>
    /\ pc = "read"
    /\ key' = "Backspace"
    /\ remove_last_char_from_filter
    /\ pc' = "draw"
    /\ UNCHANGED << fs, unreadable, fs_changes, current_dir, should_exit, output,
                    unhandled >>

\* after the loop: self.handle.execute(LeaveAlternateScreen)?
LeaveAlternateScreen ==
    /\ pc = "teardown"
    /\ alternate_screen' = FALSE
    /\ pc' = "disable_raw"
    /\ UNCHANGED << fs, unreadable, fs_changes, current_dir, items, selected,
                    filter_string, pattern, should_exit, output, unhandled, key,
                    args_directory, raw_mode, stdout >>

\* disable_raw_mode()?
disable_raw_mode ==
    /\ pc = "disable_raw"
    /\ raw_mode' = FALSE
    /\ pc' = "print_unhandled"
    /\ UNCHANGED << fs, unreadable, fs_changes, current_dir, items, selected,
                    filter_string, pattern, should_exit, output, unhandled, key,
                    args_directory, alternate_screen, stdout >>

\* mutant of PrintsUnhandled: the log is printed also when it is empty
PrintsUnhandledAlways == TRUE

\* `if unhandled.len() > 0`
PrintsUnhandled == Len(unhandled) > 0

\* println!("{:?}", unhandled), the last statement of App::run
PrintUnhandled ==
    /\ pc = "print_unhandled"
    /\ stdout' = IF PrintsUnhandled
                  THEN Append(stdout, << "unhandled", unhandled >>)
                  ELSE stdout
    /\ pc' = "print_output"
    /\ UNCHANGED << fs, unreadable, fs_changes, current_dir, items, selected,
                    filter_string, pattern, should_exit, output, unhandled, key,
                    args_directory, alternate_screen, raw_mode >>

\* main, after app.run returned: println!("{}", app.output)
PrintOutput ==
    /\ pc = "print_output"
    /\ stdout' = Append(stdout, << "output", output >>)
    /\ pc' = "done"
    /\ UNCHANGED << fs, unreadable, fs_changes, current_dir, items, selected,
                    filter_string, pattern, should_exit, output, unhandled, key,
                    args_directory, alternate_screen, raw_mode >>

Next ==
    \/ \E p \in Volatile : FsCreate(p)
    \/ \E p \in Volatile : FsRemove(p)
    \/ \E p \in Volatile : FsReplace(p)
    \/ \E d \in ChmodDirs : FsChmod(d)
    \/ Render
    \/ OtherEvent
    \/ KeyIgnored
    \/ KeyQuit
    \/ KeyEsc
    \/ KeyDown
    \/ KeyUp
    \/ KeyHome
    \/ KeyEnd
    \/ KeyRight
    \/ KeyLeft
    \/ KeyEnter
    \/ \E c \in KeyChars : KeyChar(c)
    \/ KeyBackspace
    \/ LeaveAlternateScreen
    \/ disable_raw_mode
    \/ PrintUnhandled
    \/ PrintOutput

Spec == Init /\ [][Next]_vars

(***************************************************************************)
(* Typing alone: a session in "/" in which the user only types, with the   *)
(* character "!" of the matcher's syntax among the characters typed.       *)
(***************************************************************************)
PatternChars == Alphabet \cup { "!" }

InitTyping == Init /\ args_directory = Root

NextTyping ==
    \/ Render
    \/ \E c \in PatternChars : KeyChar(c)

SpecTyping == InitTyping /\ [][NextTyping]_vars

(***************************************************************************)
(* Properties.                                                             *)
(***************************************************************************)
Names(list) == { list[i].value : i \in 1..Len(list) }

\* the names of the children of current_dir, as the file system holds them
ChildNames == { p[Len(p)] : p \in Children(current_dir) }

\* list is the full listing of current_dir: every child once, by ascending
\* byte order of the names, without match positions
IsFullListing(list) ==
    /\ Names(list) = ChildNames
    /\ \A i \in 1..Len(list) : list[i].match_indices = << >>
    /\ \A i \in 1..Len(list) : \A j \in 1..Len(list) :
          i < j => NameLess(list[i].value, list[j].value)

\* the score the matcher gives a name for query q (the name matches)
ScoreOf(q, name) == Unwrap(PatternIndices(PatternParse(q), name)).score
Matches(q, name) == IsSome(PatternIndices(PatternParse(q), name))

CharStep == pc = "read" /\ key' = "Char"
BackspaceStep == pc = "read" /\ key' = "Backspace"

\* C1 (as claimed): in every state the selection is None iff the list is empty,
\* and otherwise a valid index
C1_SelectionNoneIffEmpty ==
    /\ (selected = None) <=> (Len(items) = 0)
    /\ IsSome(selected) => (0 <= Unwrap(selected) /\ Unwrap(selected) < Len(items))

\* C1 (amended): whenever a key is awaited, and after the session has ended, a
\* selection that is present is a valid index of the list, and the selection of
\* an empty list is None
C1_SelectionValidOnceDrawn ==
    pc # "draw" =>
        /\ IsSome(selected) => (0 <= Unwrap(selected) /\ Unwrap(selected) < Len(items))
        /\ Len(items) = 0 => selected = None

\* the draw has reset the cursor of a list the filter emptied
C1_Witness ==
    pc = "read" /\ Len(filter_string) > 0 /\ Len(items) = 0 /\ selected = None

\* C2: after a printable character the list is the filter result of the new
\* query over the full listing of the directory as it is at that keystroke
C2_CharFiltersFullListing ==
    [][(CharStep /\ IsSome(ls)) =>
          items' = FilterItems(PatternParse(filter_string'), PathListFromIter(Unwrap(ls)))]_vars

\* C3: with the directory unchanged, the list shown depends on the directory
\* and the query only: it is the list Backspace computes for that query
C3_ListDependsOnQueryOnly ==
    (fs_changes = 0 /\ Len(filter_string) > 0) =>
        items = FilterItems(PatternParse(filter_string), PathListFromIter(Unwrap(ls)))

\* C4: while a query is set (directory unchanged), the list is in descending
\* order of score, entries of equal score in ascending order of name
C4_SortedByScoreThenName ==
    (fs_changes = 0 /\ Len(filter_string) > 0) =>
        \A i \in 1..Len(items) : \A j \in 1..Len(items) :
            i < j =>
                \/ ScoreOf(filter_string, items[i].value) > ScoreOf(filter_string, items[j].value)
                \/ /\ ScoreOf(filter_string, items[i].value) = ScoreOf(filter_string, items[j].value)
                   /\ NameLess(items[i].value, items[j].value)

\* C5: a printable character never adds an entry: the entries shown for q + c
\* are among those shown for q
C5_MonotonicNarrowing ==
    [][CharStep => Names(items') \subseteq Names(items)]_vars

\* "a", "b" typed: one of the two entries shown for "a" is left
C5_Witness ==
    /\ pc = "draw" /\ key = "Char" /\ fs_changes = 0
    /\ filter_string = << "a", "b" >>
    /\ current_dir = Root
    /\ Names(items) = { NameAb }

\* C6: Clear (Escape) empties the query and, the directory being readable,
\* shows its full listing in ascending order of name with index 0 selected
C6_ClearRestoresListing ==
    [][(pc = "read" /\ key' = "Esc") =>
          /\ filter_string' = << >>
          /\ IsSome(ls) => IsFullListing(items')
          /\ selected' = Some(0)]_vars

\* Escape has restored the three entries of "/"
C6_Witness ==
    /\ pc = "draw" /\ key = "Esc" /\ current_dir = Root /\ fs_changes = 0
    /\ filter_string = << >> /\ Len(items) = 3 /\ selected = Some(0)

\* C7: Backspace removes the last character of the query; when the query is
\* empty afterwards no pattern is set and, the directory being readable, the
\* full listing is shown with index 0 selected
C7_BackspaceToEmptyIsClear ==
    [][BackspaceStep =>
          /\ Len(filter_string) > 0 =>
                filter_string' = SubSeq(filter_string, 1, Len(filter_string) - 1)
          /\ Len(filter_string) <= 1 =>
                /\ filter_string' = << >>
                /\ pattern' = None
                /\ IsSome(ls) => IsFullListing(items')
                /\ selected' = Some(0)]_vars

\* Backspace has emptied the query and restored the three entries of "/"
C7_Witness ==
    /\ pc = "draw" /\ key = "Backspace" /\ current_dir = Root /\ fs_changes = 0
    /\ filter_string = << >> /\ pattern = None /\ Len(items) = 3 /\ selected = Some(0)

\* C8: a Backspace that leaves a query q' shows, the directory being readable,
\* the filter result of q' over its full listing: exactly the children that
\* match q', and index 0 is selected
C8_BackspaceRefiltersFullListing ==
    [][(BackspaceStep /\ Len(filter_string) > 1) =>
          /\ IsSome(ls) =>
                /\ items' = FilterItems(PatternParse(filter_string'),
                                        PathListFromIter(Unwrap(ls)))
                /\ Names(items') = { n \in ChildNames : Matches(filter_string', n) }
          /\ selected' = Some(0)]_vars

\* Backspace from a longer query has brought back both entries matching "a"
C8_Witness ==
    /\ pc = "draw" /\ key = "Backspace" /\ current_dir = Root /\ fs_changes = 0
    /\ filter_string = << "a" >>
    /\ Names(items) = { NameAb, NameBa }

\* C9: from a valid index i of a list of n entries, the draw after Down shows
\* i + 1, or n - 1 at the last index, and the draw after Up shows i - 1, or 0
\* at the first index
C9_MovementClamped ==
    [][(pc = "read" /\ IsSome(selected)) =>
          /\ key' = "Down" =>
                RenderSelected' =
                    (IF Unwrap(selected) < Len(items) - 1
                     THEN Some(Unwrap(selected) + 1) ELSE Some(Len(items) - 1))
          /\ key' = "Up" =>
                RenderSelected' =
                    (IF Unwrap(selected) > 0 THEN Some(Unwrap(selected) - 1) ELSE Some(0))]_vars

\* Down was pressed at the last index: the cursor is one past the end
C9_Witness ==
    pc = "draw" /\ key = "Down" /\ Len(items) >= 2 /\ selected = Some(Len(items))

\* C10 (as claimed): without a selection, on a non-empty list, the draw after
\* Down and the draw after Up both show index 0 selected
C10_NoSelectionMovesToFirst ==
    [][(pc = "read" /\ selected = None /\ Len(items) > 0 /\ key' \in { "Down", "Up" }) =>
          RenderSelected' = Some(0)]_vars

\* C10 (amended): without a selection, on a non-empty list, the draw after
\* Down shows index 0 selected and the draw after Up shows the last index
C10_NoSelectionDownFirstUpLast ==
    [][(pc = "read" /\ selected = None /\ Len(items) > 0) =>
          /\ key' = "Down" => RenderSelected' = Some(0)
          /\ key' = "Up" => RenderSelected' = Some(Len(items) - 1)]_vars

\* Up was pressed without a selection: the cursor is usize::MAX
C10_Witness ==
    pc = "draw" /\ key = "Up" /\ Len(items) >= 2 /\ selected = Some(UsizeMax)

\* the Right key calls Explorer::cd(EnterTarget): a Directory is selected
RightCd == pc = "read" /\ key' = "Right" /\ ~IndexPanics(selected) /\ EntersDirectory
\* the Left key calls Explorer::cd(ParentTarget)
LeftCd == pc = "read" /\ key' = "Left"
EnterStep == pc = "read" /\ key' = "Enter"

\* C11: Enter with an entry selected sets the command to "do-thing", the items
\* to the one path made of the current directory, "/" and the selected name,
\* and ends the session
C11_CommitWithSelection ==
    [][(EnterStep /\ IsSome(selected)) =>
          /\ output'.command = "do-thing"
          /\ output'.items =
                << PathStr(current_dir) \o << "/" >> \o items[Unwrap(selected) + 1].value >>
          /\ should_exit' = TRUE
          /\ pc' = "teardown"]_vars

\* /Ba was entered and its entry a committed: the item is "/Ba/a"
C11_Witness ==
    /\ pc = "teardown" /\ key = "Enter" /\ current_dir = PathBa
    /\ output.command = "do-thing"
    /\ output.items = << << "/", "B", "a", "/", "a" >> >>

\* C12: Enter without a selection changes nothing: the command stays "no-op",
\* the items stay empty, the session goes on with the query, the list and the
\* current directory it had
C12_CommitWithoutSelection ==
    [][(EnterStep /\ selected = None) =>
          /\ output' = output
          /\ output'.command = "no-op" /\ output'.items = << >>
          /\ should_exit' = FALSE /\ pc' = "draw"
          /\ UNCHANGED << filter_string, items, current_dir, selected >>]_vars

\* Enter was pressed on the list of "/" before any entry was selected
C12_Witness ==
    /\ pc = "draw" /\ key = "Enter" /\ selected = None /\ Len(items) = 3
    /\ output.command = "no-op" /\ ~should_exit

\* C13: Right on a File leaves the current directory alone; Right on a
\* Directory that can be resolved and listed makes the canonical form of
\* current_dir joined with the selected name the current directory
C13_EnterChangesDirectory ==
    [][(pc = "read" /\ key' = "Right" /\ IsSome(selected)) =>
          /\ items[Unwrap(selected) + 1].kind = "File" => current_dir' = current_dir
          /\ (/\ items[Unwrap(selected) + 1].kind = "Directory"
              /\ IsSome(canonicalize(EnterTarget))
              /\ IsSome(list_directory(Unwrap(canonicalize(EnterTarget)))))
             => current_dir' = Unwrap(canonicalize(EnterTarget))]_vars

\* a directory of "/" (Ba, or the link l to it) was entered: /Ba is current
C13_Witness ==
    /\ pc = "draw" /\ key = "Right" /\ current_dir = PathBa
    /\ Names(items) = { NameA, NameAba } /\ fs_changes = 0

\* the list on display is the full listing of the current directory
ShowsFullListing == IsFullListing(items)

\* C14: Right with a File selected changes nothing: the query, the list, the
\* selection, the current directory, Output and the error log stay as they are
C14_EnterFileIsNoOp ==
    [][(pc = "read" /\ key' = "Right" /\ IsSome(selected) /\ ~IndexPanics(selected)
          /\ items[Unwrap(selected) + 1].kind = "File") =>
          UNCHANGED << filter_string, pattern, items, selected, current_dir, output,
                       unhandled >>]_vars

\* C15: after Right has entered a Directory, the query is empty, no pattern is
\* set, the list is the full listing of the new current directory without
\* match positions, and the draw shows index 0 selected (nothing on an empty list)
C15_EnterShowsNewListing ==
    [][(RightCd /\ IsSome(cd_result(EnterTarget))) =>
          /\ filter_string' = << >>
          /\ pattern' = None
          /\ current_dir' = Unwrap(canonicalize(EnterTarget))
          /\ ShowsFullListing'
          /\ RenderSelected' = (IF Len(items') = 0 THEN None ELSE Some(0))]_vars

\* /Ba was entered: its two entries are listed, the first one selected
C15_Witness ==
    /\ pc = "draw" /\ key = "Right" /\ current_dir = PathBa
    /\ filter_string = << >> /\ pattern = None
    /\ items = << PathNew(NameA, "File"), PathNew(NameAba, "File") >>
    /\ selected = Some(0)

\* Explorer::cd returns an error to the Right or the Left key
CdFails ==
    \/ RightCd /\ cd_result(EnterTarget) = None
    \/ LeftCd /\ cd_result(ParentTarget) = None

\* C16: when Explorer::cd returns an error, be it from canonicalize or from
\* the listing, the directory it owns is the one it owned before the call
C16_CdAtomic ==
    [][CdFails => current_dir' = current_dir]_vars

\* C17: an error of Explorer::cd under Right or Left adds exactly one entry to
\* the error log, carrying the key and the selected name ("nothing" without a
\* selection); should_exit stays false and the loop goes on to the next key
C17_CdErrorIsLogged ==
    [][CdFails =>
          /\ unhandled' = Append(unhandled,
                [key |-> key',
                 selected |-> IF IsSome(selected)
                              THEN items[Unwrap(selected) + 1].value ELSE Nothing])
          /\ should_exit' = FALSE
          /\ pc' = "draw"]_vars

\* Right on Ba failed (Ba was removed or replaced): the entry names the key and Ba,
\* and the loop is waiting for the next key
C17_Witness ==
    /\ pc = "read" /\ ~should_exit
    /\ unhandled = << [key |-> "Right", selected |-> NameBa] >>

\* C18: when the listing fails under Escape or Backspace, an entry is added to
\* the error log
C18_ListErrorIsLogged ==
    [][(pc = "read" /\ key' \in { "Esc", "Backspace" } /\ ls = None) =>
          /\ Len(unhandled') = Len(unhandled) + 1
          /\ unhandled'[Len(unhandled')].key = key']_vars

\* C19: a Right or Left whose Explorer::cd fails leaves the current directory,
\* the query, the list and the selection as they were
C19_FailedNavigationNoEffect ==
    [][CdFails =>
          UNCHANGED << current_dir, filter_string, pattern, items, selected >>]_vars

\* C20: when the session ends after navigation that never failed, Output.cwd
\* is the current directory, and a committed item is Output.cwd, "/" and the
\* selected name
C20_OutputCwdIsCurrentDir ==
    (pc = "teardown" /\ unhandled = << >>) =>
        /\ output.cwd = PathStr(current_dir)
        /\ output.command = "do-thing" =>
               output.items = << output.cwd \o << "/" >> \o items[Unwrap(selected) + 1].value >>

\* C21: Output holds "no-op" and no item until Enter with a selection sets it,
\* and nothing else changes it: in every state the items are non-empty iff the
\* command is "do-thing", and then there is one item and should_exit is set
C21_OutputOnlyByCommit ==
    /\ [](/\ output.command \in { "no-op", "do-thing" }
          /\ (output.items # << >>) <=> (output.command = "do-thing")
          /\ output.items # << >> => (Len(output.items) = 1 /\ should_exit))
    /\ [][output' # output => (EnterStep /\ IsSome(selected))]_vars

\* an entry was committed out of a filtered list
C21_Witness ==
    /\ pc = "teardown" /\ key = "Enter" /\ Len(filter_string) > 0
    /\ output.command = "do-thing" /\ Len(output.items) = 1 /\ should_exit

\* C22: 'Q' sets should_exit and changes nothing else, with or without a
\* query; the query never holds the character 'Q'
C22_QuitOnlyTerminates ==
    /\ [](\A i \in 1..Len(filter_string) : filter_string[i] # "Q")
    /\ [][(pc = "read" /\ key' = "Q") =>
             /\ should_exit' = TRUE /\ pc' = "teardown"
             /\ UNCHANGED << output, filter_string, pattern, items, selected,
                             current_dir, unhandled >>]_vars

\* 'Q' was pressed while a query was set: the query is as it was
C22_Witness ==
    /\ pc = "teardown" /\ key = "Q" /\ should_exit
    /\ Len(filter_string) > 0 /\ pattern # None /\ output.command = "no-op"

\* C23: a Left whose Explorer::cd succeeds makes the parent of the current
\* directory current (the directory itself at the root), empties the query,
\* shows the full listing of that directory, and the draw shows index 0 selected
C23_ParentShowsParentListing ==
    [][(LeftCd /\ IsSome(cd_result(ParentTarget))) =>
          /\ current_dir' = (IF Len(current_dir) = 0 THEN current_dir
                             ELSE SubSeq(current_dir, 1, Len(current_dir) - 1))
          /\ filter_string' = << >>
          /\ pattern' = None
          /\ ShowsFullListing'
          /\ RenderSelected' = (IF Len(items') = 0 THEN None ELSE Some(0))]_vars

\* Left has listed "/" again, from /Ba or from "/" itself
C23_Witness ==
    /\ pc = "draw" /\ key = "Left" /\ current_dir = Root /\ unhandled = << >>
    /\ filter_string = << >> /\ Len(items) = 3 /\ selected = Some(0)

\* name x stands strictly before name y in the order of their bytes
BytesBefore(x, y) ==
    \E k \in 1..(Len(x) + 1) :
        /\ k <= Len(y)
        /\ \A i \in 1..(k - 1) : x[i] = y[i]
        /\ k > Len(x) \/ Byte(x[k]) < Byte(y[k])

\* the listing of every readable directory holds each of its children once
\* and nothing else, in strictly ascending order of the bytes of the names
ListingSortedChildren ==
    \A d \in { Root, PathBa } :
        LET r == list_directory(d)
            c == Children(d)
        IN IsSome(r) =>
            LET l == Unwrap(r) IN
            /\ { l[i] : i \in 1..Len(l) } = c
            /\ Len(l) = Cardinality(c)
            /\ \A j \in 1..Len(l) : \A i \in 1..(j - 1) :
                  BytesBefore(l[i][Len(l[i])], l[j][Len(l[j])])

\* C24: the listing of a readable directory holds each of its children once and
\* nothing else, in strictly ascending order of the bytes of the names, in
\* every file system a key handler may meet
C24_ListingSortedChildren == [](pc = "read" => ListingSortedChildren)

\* "/" was listed again after b was created: Ba stands before ab, ab before b
C24_Witness ==
    /\ pc = "draw" /\ key = "Esc" /\ current_dir = Root
    /\ ls = Some(<< PathBa, PathAb, PathB, PathL >>)
    /\ Len(items) = 4
    /\ items[1].value = NameBa /\ items[2].value = NameAb /\ items[3].value = NameB

\* the list shown when the characters of q are typed one after the other,
\* starting from the full listing of the current directory
RECURSIVE TypedItems(_)
TypedItems(q) ==
    IF Len(q) = 0 THEN PathListFromIter(Unwrap(ls))
    ELSE FilterItems(PatternParse(q), TypedItems(SubSeq(q, 1, Len(q) - 1)))

\* C27: in an unchanged directory, Escape brings back the full listing with
\* an empty query, and each character typed on the list of the query typed so
\* far gives the list of the longer query with index 0 selected: typing q after
\* Escape shows the same list and selection every time
C27_RetypingAfterClear ==
    [][(pc = "read" /\ fs_changes = 0 /\ IsSome(ls)) =>
          /\ key' = "Esc" =>
                /\ filter_string' = << >>
                /\ items' = TypedItems(<< >>)
                /\ selected' = Some(0)
          /\ (key' = "Char" /\ items = TypedItems(filter_string)) =>
                /\ items' = TypedItems(filter_string')
                /\ selected' = Some(0)]_vars

\* "ab" was typed on the full listing of "/": ab alone is shown, its two
\* characters marked
C27_Witness ==
    /\ pc = "draw" /\ key = "Char" /\ fs_changes = 0 /\ current_dir = Root
    /\ filter_string = << "a", "b" >>
    /\ items = TypedItems(filter_string)
    /\ items = << PathWithMatchIndices(NameAb, "File", << 0, 1 >>) >>
    /\ selected = Some(0)

\* C28: after characters were typed from an empty query, the list holds
\* exactly the entries of the directory whose names match the query, and once
\* drawn index 0 is selected, nothing when the list is empty
C28_TypedListIsMatchSet ==
    Len(filter_string) > 0 =>
        /\ pattern = Some(PatternParse(filter_string))
        /\ Names(items) = { n \in ChildNames : Matches(filter_string, n) }
        /\ pc = "read" => selected = (IF Len(items) = 0 THEN None ELSE Some(0))

\* an Explorer exists: Explorer::new returned Ok in main
ExplorerBuilt == pc # "aborted" \/ main_explorer(args_directory).ok

\* the path the Explorer owns is a directory of the file system as it is
DenotesDirectory == Exists(current_dir) /\ NodeKind(current_dir) = "dir"

\* C25: the path the Explorer owns is a directory when Explorer::new returns
\* it, and whenever a call of Explorer::cd replaces it, also one that fails
C25_OwnedPathIsDirectory ==
    /\ ExplorerBuilt => DenotesDirectory
    /\ [][current_dir' # current_dir => DenotesDirectory']_vars

\* Explorer::new fails with InvalidDirectory and the path given for a path
\* that does not exist, and else owns the canonical form of the path
NewContract ==
    \A p \in Universe \cup { Root } :
        LET r == Resolve(Root, p)
            e == ExplorerNew(p)
        IN IF IsSome(r)
           THEN e.ok /\ e.current_dir = r
           ELSE ~e.ok /\ e.err = "InvalidDirectory" /\ e.path = PathStr(p)

\* C26: Explorer::new fails with InvalidDirectory and the path given for a path
\* that does not exist, and else owns the canonical form of the path, in the
\* file system of start-up and in every file system other processes make of
\* it; a session whose directory argument does not resolve ends before the
\* loop, no key handled
C26_StartupFailure ==
    /\ fs_changes = 0 => NewContract
    /\ [][fs' # fs => NewContract']_vars
    /\ []((fs_changes = 0 /\ Resolve(Root, args_directory) = None) =>
            /\ pc = "aborted"
            /\ key = "none" /\ unhandled = << >> /\ items = << >>)

\* the session was given /b, which does not exist: main returned at once
C26_Witness ==
    /\ args_directory = PathB /\ ~Exists(PathB) /\ pc = "aborted"
    /\ ~ExplorerNew(PathB).ok /\ ExplorerNew(PathL).current_dir = Some(PathBa)

\* C29: while the query is empty no entry of the list carries match positions
C29_NoMatchIndicesWithoutQuery ==
    Len(filter_string) = 0 =>
        \A i \in 1..Len(items) : items[i].match_indices = << >>

\* the names the current directory has held, or may come to hold, as children
EverChildNames ==
    { p[Len(p)] : p \in { q \in Universe : Len(q) = Len(current_dir) + 1
                                            /\ IsPrefix(current_dir, q) } }

\* C30: every entry of the list is a child the current directory was listed
\* with, so that a committed path names an entry of that directory
C30_ListBelongsToCurrentDir ==
    /\ \A i \in 1..Len(items) : items[i].value \in EverChildNames
    /\ output.command = "do-thing" =>
          \E n \in EverChildNames : output.items = << cwd \o << "/" >> \o n >>

\* the error log has been written to the standard output
ErrorsShown == \E i \in 1..Len(stdout) : stdout[i][1] = "unhandled"

\* C31: the error log is printed only when it holds an entry, and only after
\* the loop has ended, the alternate screen is left and the raw mode is
\* disabled; nothing of it is shown while the session runs, and a log that
\* holds an entry has been printed once the session is over
C31_ErrorLogAfterTeardown ==
    /\ [](pc \in { "draw", "read" } => stdout = << >>)
    /\ [](ErrorsShown => /\ Len(unhandled) > 0
                          /\ should_exit /\ ~alternate_screen /\ ~raw_mode
                          /\ pc \in { "print_output", "done" })
    /\ [][(~ErrorsShown /\ ErrorsShown') =>
              /\ should_exit /\ ~alternate_screen /\ ~raw_mode
              /\ stdout' = Append(stdout, << "unhandled", unhandled >>)]_vars
    /\ [](pc = "done" => (ErrorsShown <=> Len(unhandled) > 0))

\* a session with one failed key is over: the log, then the Output line
C31_Witness ==
    /\ pc = "done" /\ Len(unhandled) = 1 /\ ~alternate_screen /\ ~raw_mode
    /\ stdout = << << "unhandled", unhandled >>, << "output", output >> >>

\* one of the four keys that move the cursor is handled
SelectStep == pc = "read" /\ key' \in { "Down", "Up", "Home", "End" }

\* C32: Down, Up, Home and End change the cursor only: the file system, the
\* current directory, the query and its pattern, the list (names, kinds,
\* order, match positions), Output, should_exit and the error log are as
\* before; on a list that is not empty Home selects index 0 and the draw after
\* End shows the last index
C32_SelectionKeysMoveCursorOnly ==
    [][SelectStep =>
          /\ UNCHANGED << fs, unreadable, current_dir, filter_string, pattern,
                          items, output, should_exit, unhandled, stdout >>
          /\ (Len(items) > 0 /\ key' = "Home") =>
                selected' = Some(0) /\ RenderSelected' = Some(0)
          /\ (Len(items) > 0 /\ key' = "End") =>
                RenderSelected' = Some(Len(items) - 1)]_vars

\* End was pressed on the filtered list [ab, Ba] after the file b was created
C32_Witness ==
    /\ pc = "draw" /\ key = "End" /\ selected = Some(UsizeMax)
    /\ Len(items) = 2 /\ filter_string = << "a" >> /\ fs[PathB] = "file"

\* the loop of App::run is on: a draw or an event is next
InLoop == pc \in { "draw", "read" }

\* C33: should_exit is false at start and is set only by the Q key or by Enter
\* with a selection; the loop tests it before each iteration, so once it is
\* set the loop is left and no key is handled, and the current directory, the
\* query, the list, the selection and Output stay as they are; an iteration
\* handles one key event at most, a draw standing between two keys
C33_TerminationProtocol ==
    /\ should_exit = FALSE
    /\ [][should_exit' # should_exit =>
              /\ should_exit' = TRUE /\ pc = "read"
              /\ key' = "Q" \/ (key' = "Enter" /\ IsSome(selected))]_vars
    /\ [](should_exit <=> (~InLoop /\ pc # "aborted"))
    /\ [][should_exit =>
              UNCHANGED << current_dir, filter_string, pattern, items, selected,
                           output, should_exit, unhandled, key >>]_vars
    /\ [][(pc = "read" /\ key' # key) => (key = "none" /\ pc' # "read")]_vars

\* the session was ended by Q with a query typed, and is over
C33_Witness ==
    /\ pc = "done" /\ should_exit /\ key = "Q"
    /\ Len(filter_string) > 0 /\ output.command = "no-op"

\* C34: a pattern is stored exactly when the query is not empty, and it is the
\* pattern parsed from the query: the filtering mode is a function of the query
C34_PatternIffQuery ==
    /\ IsSome(pattern) <=> Len(filter_string) > 0
    /\ IsSome(pattern) => Unwrap(pattern) = PatternParse(filter_string)

\* a Backspace has left one character of the query "a "
C34_Witness ==
    /\ pc = "draw" /\ key = "Backspace"
    /\ filter_string = << "a" >> /\ pattern = Some(PatternParse(<< "a" >>))

C36_IgnoredKeyChangesNothing ==
    [][(pc = "read" /\ key' = "Ignored") =>
          /\ UNCHANGED << fs, unreadable, current_dir, filter_string, pattern,
                          items, selected, output, should_exit, unhandled,
                          stdout >>
          /\ pc' = "draw"]_vars

\* an ignored key came with the query "a" typed and the second match selected
C36_Witness ==
    /\ pc = "draw" /\ key = "Ignored"
    /\ filter_string = << "a" >> /\ IsSome(pattern)
    /\ Len(items) = 2 /\ selected = Some(1)

====
